---- MODULE Spec2Model ----
(***************************************************************************)
(* Bottle inspection station (BottleNet_April5.ino): a single-threaded,    *)
(* blocking control loop.  The program is modelled statement group by      *)
(* statement group; every delay() is one step in which the millisecond     *)
(* clock advances by the delay and the presence input evolves freely.      *)
(*                                                                         *)
(* Time is in milliseconds.  The presence input is a physical signal that  *)
(* may change level at any instant of a grid twice as fine as the          *)
(* controller's 10 ms polling period, so that changes between two reads    *)
(* of the pin exist in the model.                                          *)
(*                                                                         *)
(* Heights are fixed-point numbers in units of 10^-5 cm (the echo time in  *)
(* microseconds times 0.0343 / 2 = 0.01715 cm is then an integer).         *)
(***************************************************************************)
EXTENDS Integers, Sequences, FiniteSets, TLC

\* ---------------------------------------------------------------------
\* Program constants
\* ---------------------------------------------------------------------
LOW == 0
HIGH == 1

SERVO_OPEN_ANGLE == 180
SERVO_CLOSED_ANGLE == 0
SERVO_STEP == 2
SERVO_STEP_DELAY == 20

\* 15.0 cm, 25.0 cm and 40.0 cm in units of 10^-5 cm
SMALL_MAX == 1500000
MEDIUM_MAX == 2500000
SENSOR_HEIGHT == 4000000
\* 0.0343 / 2 cm per microsecond, in units of 10^-5 cm
CM_PER_US == 1715

CAP_WATER_THRESHOLD == 500
CAP_SAMPLES == 5
CAP_SAMPLE_DELAY == 10

DEBOUNCE_MS == 50
LOOP_DELAY == 10
CLEARWAIT_DELAY == 10
COOLDOWN_MS == 2000
GATE_HOLD_MS == 5000
LCD_TEST_DELAY == 500
READY_DELAY == 1000
\* pulseIn() gives up after its default timeout of one second and returns 0
PULSEIN_TIMEOUT_MS == 1000

\* ---------------------------------------------------------------------
\* Bounds of the model
\* ---------------------------------------------------------------------
\* no new loop iteration is started at or after this clock value
MaxTime == 5200
\* at most this many consecutive 10 ms polls in one wait (Idle or ClearWait)
MaxPolls == 7
\* width in bits of the millisecond counter in the specification of the
\* unbounded run (32 in the program)
LiveClockBits == 7

\* Inputs
EchoDurations == {0, 1166, 1749}
AnalogSamples == {0, 500, 1023}

VARIABLES
  pc,            \* position of the program
  now,           \* millis()
  ir,            \* level of IR_SENSOR_PIN
  irStable,      \* ms since the pin last changed level (saturating)
  inspInLow,     \* inspections started in the current LOW interval of the pin
  missedLow,     \* a LOW interval longer than the debounce ended uninspected
  lastDebounce,  \* static of bottleDetected
  lastState,     \* static of bottleDetected
  detected,      \* value returned by the last call of bottleDetected
  obsLevel,      \* level read by the last call (2: no call yet)
  obsSince,      \* time of the first call of the current run of equal reads
  lastCall,      \* time of the last call of bottleDetected
  trueSinceHigh, \* calls that returned true since the last read of HIGH
  inspSinceHigh, \* inspections started since the last read of HIGH
  polls,         \* consecutive polls of the current wait
  gateAngle,     \* last angle written to gateServo
  pos,           \* loop variable of openGate / closeGate
  greenLed, redLed, buzzer,
  lcd,           \* what the display shows
  height, size, hasWater, accepted,   \* locals of inspectBottle
  i, avg,        \* locals of checkWaterPresence
  steps,         \* the steps the current inspection has performed
  duration,      \* local of measureBottleHeight: the echo time in microseconds
  rawSum,        \* the sum of the samples read, as an unbounded integer (kept
                 \* until the result of checkWaterPresence is displayed)
  writes,        \* angles written to the servo by the current sweep
  buzzHighs,     \* times the buzzer was driven high since the inspection began
  sinceChange    \* ms since lastDebounce was assigned (saturating; kept by the
                 \* specification of the wrapping counter only)

envVars == <<ir, irStable, inspInLow, missedLow>>
callVars == <<lastDebounce, lastState, detected, obsLevel, obsSince, lastCall, trueSinceHigh>>
detVars == <<callVars, sinceChange>>
outVars == <<gateAngle, greenLed, redLed, buzzer, lcd, buzzHighs>>
inspVars == <<height, size, hasWater, accepted, i, avg, pos, steps, duration, rawSum, writes>>
vars == <<pc, now, envVars, detVars, inspSinceHigh, polls, outVars, inspVars>>

Min(a, b) == IF a < b THEN a ELSE b
Max(a, b) == IF a > b THEN a ELSE b

\* ---------------------------------------------------------------------
\* The presence input (environment)
\* ---------------------------------------------------------------------
\* the pin may change level every Quantum ms
Quantum == LOOP_DELAY \div 2
\* irStable saturates at the first grid value above the debounce time
StableCap == DEBOUNCE_MS + Quantum

\* One quantum of time passes, then the pin keeps or changes its level.
EnvTick(e) ==
  LET len == Min(StableCap, e.irStable + Quantum) IN
  { [e EXCEPT !.irStable = len],
    [ir |-> 1 - e.ir, irStable |-> 0, inspInLow |-> 0,
     missedLow |-> e.missedLow \/ (e.ir = LOW /\ len > DEBOUNCE_MS /\ e.inspInLow = 0)] }

RECURSIVE EnvAfterN(_, _)
EnvAfterN(S, k) ==
  IF k = 0 THEN S
  ELSE LET T == UNION {EnvTick(e) : e \in S} IN
       IF T = S THEN S ELSE EnvAfterN(T, k - 1)

\* the states the input can be in n ms after state e
EnvAfter(e, n) == EnvAfterN({e}, n \div Quantum)

EnvNow == [ir |-> ir, irStable |-> irStable, inspInLow |-> inspInLow, missedLow |-> missedLow]

\* delay(n): the clock advances by n ms while the input does what it likes
Delay(n) ==
  /\ now' = now + n
  /\ \E e \in EnvAfter(EnvNow, n) :
       /\ ir' = e.ir
       /\ irStable' = e.irStable
       /\ inspInLow' = e.inspInLow
       /\ missedLow' = e.missedLow

\* ---------------------------------------------------------------------
\* bottleDetected()
\* ---------------------------------------------------------------------
\* millis() - lastDebounce (no wrap of the counter below MaxTime)
Elapsed(t, d) == t - d

\* a detector that never restarts its timer
NewDebounce_Stale(cur) == lastDebounce

\* lines 101-103
NewDebounce(cur) == IF cur # lastState THEN now ELSE lastDebounce

\* lines 105-107 and 110: the value returned, for e = millis() - lastDebounce
DetectWith(cur, e) == e > DEBOUNCE_MS /\ cur = LOW

\* an edge-triggered detector: true once, then false until re-armed
DetectResult_Edge(cur) ==
  DetectWith(cur, Elapsed(now, NewDebounce(cur))) /\ ~detected

DetectResult(cur) == DetectWith(cur, Elapsed(now, NewDebounce(cur)))

\* line 109, skipped by the early return of line 106
LastStateAfter(res, cur) == IF res THEN lastState ELSE cur

\* a detector that never stores the level it read
NewLastState_Keep(cur) == lastState

NewLastState(cur) == LastStateAfter(DetectResult(cur), cur)

bottleDetected ==
  LET cur == ir IN
  /\ lastDebounce' = NewDebounce(cur)
  /\ lastState' = NewLastState(cur)
  /\ detected' = DetectResult(cur)
  /\ obsLevel' = cur
  /\ obsSince' = IF cur # obsLevel THEN now ELSE obsSince
  /\ lastCall' = now
  /\ trueSinceHigh' = IF cur = HIGH THEN 0
                      ELSE IF DetectResult(cur) THEN Min(2, trueSinceHigh + 1)
                      ELSE trueSinceHigh
  /\ UNCHANGED sinceChange


\* a read of HIGH ends the run of LOW reads the inspections are counted in
InspSinceHighAfterRead == IF ir = HIGH THEN 0 ELSE inspSinceHigh

\* ---------------------------------------------------------------------
\* Pure functions of the inspection
\* ---------------------------------------------------------------------
\* a measurement without the clamp at zero
measureBottleHeight_NoClamp(d) == SENSOR_HEIGHT - d * CM_PER_US

\* lines 184-185, for an echo of d microseconds
measureBottleHeight(d) == Max(SENSOR_HEIGHT - d * CM_PER_US, 0)

\* pulseIn blocks for its timeout when no echo arrives; an echo of a few
\* milliseconds is below the grid of the model
EchoTime(d) == IF d = 0 THEN PULSEIN_TIMEOUT_MS ELSE 0

\* a classifier whose bands are closed above instead of below
classifyBottleSize_Strict(h) ==
  IF h < SMALL_MAX THEN "Small"
  ELSE IF h < MEDIUM_MAX THEN "Medium"
  ELSE "Large"

\* lines 189-191
classifyBottleSize(h) ==
  IF h <= SMALL_MAX THEN "Small"
  ELSE IF h <= MEDIUM_MAX THEN "Medium"
  ELSE "Large"

\* int is 16 bits wide on the target
Int16(x) == ((x + 32768) % 65536) - 32768

\* a comparison that is not strict
WaterResult_AtLeast(sum) == (sum \div CAP_SAMPLES) >= CAP_WATER_THRESHOLD

\* lines 200-201, for the sum of the samples
WaterResult(sum) == (sum \div CAP_SAMPLES) > CAP_WATER_THRESHOLD

\* a decision that also accepts tall bottles with liquid
AcceptDecision_Tall(water) == ~water \/ height > MEDIUM_MAX

\* line 118
AcceptDecision(water) == ~water

\* lines 124-125
GreenLevel(acc) == IF acc THEN HIGH ELSE LOW
RedLevel(acc) == IF acc THEN LOW ELSE HIGH

\* ---------------------------------------------------------------------
\* Tones: beep(d) drives the buzzer high, waits d ms and drives it low
\* ---------------------------------------------------------------------
Beeps ==
  { [at |-> "startup_beep1", mid |-> "startup_beep1_on", dur |-> 100, next |-> "startup_gap", tone |-> ""],
    [at |-> "startup_beep2", mid |-> "startup_beep2_on", dur |-> 100, next |-> "setup_ready", tone |-> ""],
    [at |-> "accept_beep1", mid |-> "accept_beep1_on", dur |-> 200, next |-> "accept_gap", tone |-> ""],
    [at |-> "accept_beep2", mid |-> "accept_beep2_on", dur |-> 200, next |-> "hold", tone |-> "accept_tone"],
    [at |-> "reject_beep", mid |-> "reject_beep_on", dur |-> 1000, next |-> "log", tone |-> "reject_tone"] }

Gaps ==
  { [at |-> "startup_gap", dur |-> 50, next |-> "startup_beep2"],
    [at |-> "accept_gap", dur |-> 100, next |-> "accept_beep2"] }

\* the steps every inspection records before it branches on the decision
CommonSteps == <<"measure", "classify", "sample", "decide", "display", "leds">>

\* ---------------------------------------------------------------------
\* Phases of the main controller
\* ---------------------------------------------------------------------
SetupPcs == {"setup", "startup_beep1", "startup_beep1_on", "startup_gap",
             "startup_beep2", "startup_beep2_on", "setup_ready"}
IdlePcs == {"idle", "loop_delay"}
ClearWaitPcs == {"clearwait", "clearwait_delay"}
CooldownPcs == {"cooldown", "lcd_clear"}
InspectPcs == {"measure", "classify", "water", "display", "led_green", "led_red", "branch",
               "open", "accept_beep1", "accept_beep1_on", "accept_gap", "accept_beep2",
               "accept_beep2_on", "hold", "close", "reject_beep", "reject_beep_on", "log"}

Phase(p) ==
  IF p \in SetupPcs THEN "Setup"
  ELSE IF p \in IdlePcs THEN "Idle"
  ELSE IF p \in InspectPcs THEN "Inspecting"
  ELSE IF p \in ClearWaitPcs THEN "ClearWait"
  ELSE "CooldownDisplay"

\* ---------------------------------------------------------------------
\* Initial state: the program before setup() runs
\* ---------------------------------------------------------------------
Init ==
  /\ pc = "setup"
  /\ now = 0
  /\ ir \in {LOW, HIGH}
  /\ irStable = 0
  /\ inspInLow = 0
  /\ missedLow = FALSE
  /\ lastDebounce = 0
  /\ lastState = HIGH
  /\ detected = FALSE
  /\ obsLevel = 2
  /\ obsSince = 0
  /\ lastCall = 0
  /\ trueSinceHigh = 0
  /\ inspSinceHigh = 0
  /\ polls = 0
  /\ gateAngle \in {SERVO_CLOSED_ANGLE, 90, SERVO_OPEN_ANGLE}   \* nothing written yet
  /\ pos = 0
  /\ greenLed = LOW
  /\ redLed = LOW
  /\ buzzer = LOW
  /\ lcd = "off"
  /\ height = 0
  /\ size = ""
  /\ hasWater = FALSE
  /\ accepted = FALSE
  /\ i = 0
  /\ avg = 0
  /\ steps = <<>>
  /\ duration = 0
  /\ rawSum = 0
  /\ writes = 0
  /\ buzzHighs = 0
  /\ sinceChange = 0

\* the presence input is observed from the start of the main loop on:
\* during setup() only the clock advances
Sleep(n) == now' = now + n /\ UNCHANGED envVars

\* ---------------------------------------------------------------------
\* setup()
\* ---------------------------------------------------------------------
\* lines 41-70: initializeLCD (with its 500 ms test), servo, pins, banner
SetupBegin ==
  /\ pc = "setup"
  /\ Sleep(LCD_TEST_DELAY)
  /\ gateAngle' = SERVO_CLOSED_ANGLE
  /\ greenLed' = LOW
  /\ redLed' = LOW
  /\ lcd' = "System Ready"
  /\ pc' = "startup_beep1"
  /\ UNCHANGED <<detVars, inspSinceHigh, polls, buzzer, buzzHighs, inspVars>>

\* lines 72-73, then the first iteration of loop()
SetupEnd ==
  /\ pc = "setup_ready"
  /\ Sleep(READY_DELAY)
  /\ lcd' = "blank"
  /\ pc' = "idle"
  /\ UNCHANGED <<detVars, inspSinceHigh, polls, gateAngle, greenLed, redLed, buzzer, buzzHighs, inspVars>>

\* ---------------------------------------------------------------------
\* beep(), startupBeep(), acceptBeep(), rejectBeep()
\* ---------------------------------------------------------------------
InSetup == pc \in SetupPcs

BeepHigh ==
  \E b \in Beeps :
    /\ pc = b.at
    /\ buzzer' = HIGH
    /\ buzzHighs' = buzzHighs + 1
    /\ pc' = b.mid
    /\ UNCHANGED <<now, envVars, detVars, inspSinceHigh, polls, gateAngle, greenLed, redLed, lcd, inspVars>>

\* a beep that leaves the buzzer driven
BeepLow_NoRelease ==
  \E b \in Beeps :
    /\ pc = b.mid
    /\ IF InSetup THEN Sleep(b.dur) ELSE Delay(b.dur)
    /\ pc' = b.next
    /\ steps' = IF b.tone = "" THEN steps ELSE Append(steps, b.tone)
    /\ UNCHANGED <<detVars, inspSinceHigh, polls, outVars,
                   height, size, hasWater, accepted, i, avg, pos, duration, rawSum, writes>>

\* lines 221-222: the wait of beep() and the write that ends it
BeepLow ==
  \E b \in Beeps :
    /\ pc = b.mid
    /\ IF InSetup THEN Sleep(b.dur) ELSE Delay(b.dur)
    /\ buzzer' = LOW
    /\ pc' = b.next
    /\ steps' = IF b.tone = "" THEN steps ELSE Append(steps, b.tone)
    /\ UNCHANGED <<detVars, inspSinceHigh, polls, gateAngle, greenLed, redLed, lcd, buzzHighs,
                   height, size, hasWater, accepted, i, avg, pos, duration, rawSum, writes>>

ToneGap ==
  \E g \in Gaps :
    /\ pc = g.at
    /\ IF InSetup THEN Sleep(g.dur) ELSE Delay(g.dur)
    /\ pc' = g.next
    /\ UNCHANGED <<detVars, inspSinceHigh, polls, outVars, inspVars>>

\* ---------------------------------------------------------------------
\* loop()
\* ---------------------------------------------------------------------
\* line 82: the call of bottleDetected() that decides the if
LoopDetect ==
  /\ pc = "idle"
  /\ bottleDetected
  /\ IF detected'
       THEN /\ pc' = "measure"
            /\ steps' = <<>>
            /\ inspInLow' = Min(2, inspInLow + 1)
            /\ inspSinceHigh' = Min(2, InspSinceHighAfterRead + 1)
            /\ polls' = 0
            /\ buzzHighs' = 0
       ELSE /\ pc' = "loop_delay"
            /\ inspSinceHigh' = InspSinceHighAfterRead
            /\ UNCHANGED <<steps, inspInLow, polls, buzzHighs>>
  /\ UNCHANGED <<now, ir, irStable, missedLow, gateAngle, greenLed, redLed, buzzer, lcd,
                 height, size, hasWater, accepted, i, avg, pos, duration, rawSum, writes>>

\* line 88
LoopDelay ==
  /\ pc = "loop_delay"
  /\ now < MaxTime
  /\ polls < MaxPolls
  /\ Delay(LOOP_DELAY)
  /\ polls' = polls + 1
  /\ pc' = "idle"
  /\ UNCHANGED <<detVars, inspSinceHigh, outVars, inspVars>>

\* a ClearWait that does not wait
ClearWaitDetect_NoWait ==
  /\ pc = "clearwait"
  /\ bottleDetected
  /\ inspSinceHigh' = InspSinceHighAfterRead
  /\ pc' = "cooldown"
  /\ polls' = 0
  /\ UNCHANGED <<now, envVars, outVars, inspVars>>

\* line 84: the condition of the while
ClearWaitDetect ==
  /\ pc = "clearwait"
  /\ bottleDetected
  /\ inspSinceHigh' = InspSinceHighAfterRead
  /\ IF detected'
       THEN pc' = "clearwait_delay" /\ UNCHANGED polls
       ELSE pc' = "cooldown" /\ polls' = 0
  /\ UNCHANGED <<now, envVars, outVars, inspVars>>

\* line 84: the body of the while
ClearWaitDelay ==
  /\ pc = "clearwait_delay"
  /\ polls < MaxPolls
  /\ Delay(CLEARWAIT_DELAY)
  /\ polls' = polls + 1
  /\ pc' = "clearwait"
  /\ UNCHANGED <<detVars, inspSinceHigh, outVars, inspVars>>

\* a cooldown without the hold
Cooldown_NoHold ==
  /\ pc = "cooldown"
  /\ pc' = "lcd_clear"
  /\ UNCHANGED <<now, envVars, detVars, inspSinceHigh, polls, outVars, inspVars>>

\* line 85
Cooldown ==
  /\ pc = "cooldown"
  /\ Delay(COOLDOWN_MS)
  /\ pc' = "lcd_clear"
  /\ UNCHANGED <<detVars, inspSinceHigh, polls, outVars, inspVars>>

\* line 86
LcdClear ==
  /\ pc = "lcd_clear"
  /\ lcd' = "blank"
  /\ pc' = "loop_delay"
  /\ UNCHANGED <<now, envVars, detVars, inspSinceHigh, polls, gateAngle, greenLed, redLed, buzzer, buzzHighs, inspVars>>

\* ---------------------------------------------------------------------
\* inspectBottle()
\* ---------------------------------------------------------------------
\* line 115: measureBottleHeight(), pulseIn returning a duration of D
MeasureFrom(D) ==
  /\ pc = "measure"
  /\ \E d \in D :
       /\ duration' = d
       /\ height' = measureBottleHeight(d)
       /\ Delay(EchoTime(d))
  /\ steps' = Append(steps, "measure")
  /\ pc' = "classify"
  /\ UNCHANGED <<detVars, inspSinceHigh, polls, outVars, size, hasWater, accepted, i, avg, pos,
                 rawSum, writes>>

Measure == MeasureFrom(EchoDurations)

\* line 116: classifyBottleSize(height)
Classify ==
  /\ pc = "classify"
  /\ size' = classifyBottleSize(height)
  /\ steps' = Append(steps, "classify")
  /\ i' = 0
  /\ avg' = 0
  /\ rawSum' = 0
  /\ pc' = "water"
  /\ UNCHANGED <<now, envVars, detVars, inspSinceHigh, polls, outVars, height, hasWater, accepted, pos,
                 duration, writes>>

\* lines 196-199: one iteration of the sampling loop, analogRead returning
\* a value of A
WaterReadFrom(A) ==
  /\ pc = "water"
  /\ i < CAP_SAMPLES
  /\ \E a \in A :
       /\ avg' = Int16(avg + a)
       /\ rawSum' = rawSum + a
  /\ Delay(CAP_SAMPLE_DELAY)
  /\ i' = i + 1
  /\ UNCHANGED <<pc, detVars, inspSinceHigh, polls, outVars, height, size, hasWater, accepted, pos, steps,
                 duration, writes>>

WaterRead == WaterReadFrom(AnalogSamples)

\* lines 200-201 and 117-118: the average, the threshold and the decision
WaterDone ==
  /\ pc = "water"
  /\ i >= CAP_SAMPLES
  /\ hasWater' = WaterResult(avg)
  /\ accepted' = AcceptDecision(hasWater')
  /\ i' = 0
  /\ avg' = 0
  /\ steps' = steps \o <<"sample", "decide">>
  /\ pc' = "display"
  /\ UNCHANGED <<now, envVars, detVars, inspSinceHigh, polls, outVars, height, size, pos, duration,
                 rawSum, writes>>

\* line 121: updateDisplay
UpdateDisplay ==
  /\ pc = "display"
  /\ lcd' = "result"
  /\ steps' = Append(steps, "display")
  /\ rawSum' = 0
  /\ pc' = "led_green"
  /\ UNCHANGED <<now, envVars, detVars, inspSinceHigh, polls, gateAngle, greenLed, redLed, buzzer, buzzHighs,
                 height, size, hasWater, accepted, i, avg, pos, duration, writes>>

\* line 124
LedGreen ==
  /\ pc = "led_green"
  /\ greenLed' = GreenLevel(accepted)
  /\ pc' = "led_red"
  /\ UNCHANGED <<now, envVars, detVars, inspSinceHigh, polls, gateAngle, redLed, buzzer, lcd, buzzHighs, inspVars>>

\* line 125
LedRed ==
  /\ pc = "led_red"
  /\ redLed' = RedLevel(accepted)
  /\ steps' = Append(steps, "leds")
  /\ pc' = "branch"
  /\ UNCHANGED <<now, envVars, detVars, inspSinceHigh, polls, gateAngle, greenLed, buzzer, lcd, buzzHighs,
                 height, size, hasWater, accepted, i, avg, pos, duration, rawSum, writes>>

\* a branch that opens the gate whatever the decision
Branch_AlwaysOpen ==
  /\ pc = "branch"
  /\ pc' = "open"
  /\ pos' = SERVO_CLOSED_ANGLE
  /\ writes' = 0
  /\ UNCHANGED <<now, envVars, detVars, inspSinceHigh, polls, outVars,
                 height, size, hasWater, accepted, i, avg, steps, duration, rawSum>>

\* line 128, and the initialisation of openGate's loop
Branch ==
  /\ pc = "branch"
  /\ IF accepted
       THEN pc' = "open" /\ pos' = SERVO_CLOSED_ANGLE /\ writes' = 0
       ELSE pc' = "reject_beep" /\ UNCHANGED <<pos, writes>>
  /\ UNCHANGED <<now, envVars, detVars, inspSinceHigh, polls, outVars,
                 height, size, hasWater, accepted, i, avg, steps, duration, rawSum>>

\* an opening sweep in steps of 4 degrees
OpenStep_Coarse ==
  /\ pc = "open"
  /\ pos <= SERVO_OPEN_ANGLE
  /\ gateAngle' = pos
  /\ writes' = writes + 1
  /\ Delay(SERVO_STEP_DELAY)
  /\ pos' = pos + 2 * SERVO_STEP
  /\ UNCHANGED <<pc, detVars, inspSinceHigh, polls, greenLed, redLed, buzzer, lcd, buzzHighs,
                 height, size, hasWater, accepted, i, avg, steps, duration, rawSum>>

\* lines 166-169: one iteration of openGate's loop
OpenStep ==
  /\ pc = "open"
  /\ pos <= SERVO_OPEN_ANGLE
  /\ gateAngle' = pos
  /\ writes' = writes + 1
  /\ Delay(SERVO_STEP_DELAY)
  /\ pos' = pos + SERVO_STEP
  /\ UNCHANGED <<pc, detVars, inspSinceHigh, polls, greenLed, redLed, buzzer, lcd, buzzHighs,
                 height, size, hasWater, accepted, i, avg, steps, duration, rawSum>>

\* line 166: the loop of openGate ends
OpenDone ==
  /\ pc = "open"
  /\ pos > SERVO_OPEN_ANGLE
  /\ pos' = 0
  /\ steps' = Append(steps, "open")
  /\ pc' = "accept_beep1"
  /\ UNCHANGED <<now, envVars, detVars, inspSinceHigh, polls, outVars,
                 height, size, hasWater, accepted, i, avg, duration, rawSum, writes>>

\* line 131, and the initialisation of closeGate's loop
Hold ==
  /\ pc = "hold"
  /\ Delay(GATE_HOLD_MS)
  /\ steps' = Append(steps, "hold")
  /\ pos' = SERVO_OPEN_ANGLE
  /\ writes' = 0
  /\ pc' = "close"
  /\ UNCHANGED <<detVars, inspSinceHigh, polls, outVars, height, size, hasWater, accepted, i, avg,
                 duration, rawSum>>

\* a closing sweep that stops one step short of the closed angle
CloseStep_Short ==
  /\ pc = "close"
  /\ pos >= SERVO_CLOSED_ANGLE
  /\ gateAngle' = Max(pos, SERVO_STEP)
  /\ writes' = writes + 1
  /\ Delay(SERVO_STEP_DELAY)
  /\ pos' = pos - SERVO_STEP
  /\ UNCHANGED <<pc, detVars, inspSinceHigh, polls, greenLed, redLed, buzzer, lcd, buzzHighs,
                 height, size, hasWater, accepted, i, avg, steps, duration, rawSum>>

\* lines 173-176: one iteration of closeGate's loop
CloseStep ==
  /\ pc = "close"
  /\ pos >= SERVO_CLOSED_ANGLE
  /\ gateAngle' = pos
  /\ writes' = writes + 1
  /\ Delay(SERVO_STEP_DELAY)
  /\ pos' = pos - SERVO_STEP
  /\ UNCHANGED <<pc, detVars, inspSinceHigh, polls, greenLed, redLed, buzzer, lcd, buzzHighs,
                 height, size, hasWater, accepted, i, avg, steps, duration, rawSum>>

\* line 173: the loop of closeGate ends
CloseDone ==
  /\ pc = "close"
  /\ pos < SERVO_CLOSED_ANGLE
  /\ pos' = 0
  /\ steps' = Append(steps, "close")
  /\ pc' = "log"
  /\ UNCHANGED <<now, envVars, detVars, inspSinceHigh, polls, outVars,
                 height, size, hasWater, accepted, i, avg, duration, rawSum, writes>>

\* line 138: logResults, and the return to loop(); height, size and
\* hasWater go out of scope
Log ==
  /\ pc = "log"
  /\ height' = 0
  /\ size' = ""
  /\ hasWater' = FALSE
  /\ duration' = 0
  /\ writes' = 0
  /\ pc' = "clearwait"
  /\ UNCHANGED <<now, envVars, detVars, inspSinceHigh, polls, outVars, accepted, i, avg, pos, steps, rawSum>>

\* ---------------------------------------------------------------------
Next ==
  \/ SetupBegin \/ SetupEnd
  \/ BeepHigh \/ BeepLow \/ ToneGap
  \/ LoopDetect \/ LoopDelay
  \/ ClearWaitDetect \/ ClearWaitDelay \/ Cooldown \/ LcdClear
  \/ Measure \/ Classify \/ WaterRead \/ WaterDone
  \/ UpdateDisplay \/ LedGreen \/ LedRed \/ Branch
  \/ OpenStep \/ OpenDone \/ Hold \/ CloseStep \/ CloseDone
  \/ Log

Spec == Init /\ [][Next]_vars

TypeOK ==
  /\ pc \in SetupPcs \cup IdlePcs \cup InspectPcs \cup ClearWaitPcs \cup CooldownPcs
  /\ ir \in {LOW, HIGH}
  /\ irStable \in 0..StableCap
  /\ lastState \in {LOW, HIGH}
  /\ gateAngle \in 0..180

\* =====================================================================
\* The unbounded run of loop(), for progress.  The clock is the wrapping
\* counter millis(), at a reduced width; inspectBottle() is one step; the
\* presence input may take either level after every delay.
\* =====================================================================
LiveClock == 2 ^ LiveClockBits

\* a difference of signed numbers
ElapsedSigned(t, d) == t - d

\* millis() - lastDebounce in unsigned arithmetic
ElapsedWrap(t, d) == (t - d) % LiveClock

DelayWrap(n) ==
  /\ now' = (now + n) % LiveClock
  /\ ir' \in {LOW, HIGH}
  /\ UNCHANGED <<irStable, inspInLow, missedLow>>

bottleDetectedWrap ==
  LET cur == ir
      res == DetectWith(cur, ElapsedWrap(now, NewDebounce(cur))) IN
  /\ lastDebounce' = NewDebounce(cur)
  /\ lastState' = LastStateAfter(res, cur)
  /\ detected' = res
  /\ UNCHANGED <<obsLevel, obsSince, lastCall, trueSinceHigh>>

\* the writes of one sweep of the gate
SweepWrites == (SERVO_OPEN_ANGLE - SERVO_CLOSED_ANGLE) \div SERVO_STEP + 1

\* the time inspectBottle() blocks for
InspectTime(d, acc) ==
  EchoTime(d) + CAP_SAMPLES * CAP_SAMPLE_DELAY
  + (IF acc THEN 2 * SweepWrites * SERVO_STEP_DELAY + (200 + 100 + 200) + GATE_HOLD_MS
     ELSE 1000)

\* the sums the five samples can have
LiveSums == {0, CAP_SAMPLES * CAP_WATER_THRESHOLD, CAP_SAMPLES * 1023}

\* loop() is entered for the first time
InitLive ==
  /\ pc = "idle"
  /\ now = (LCD_TEST_DELAY + 100 + 50 + 100 + READY_DELAY) % LiveClock
  /\ ir \in {LOW, HIGH}
  /\ irStable = 0
  /\ inspInLow = 0
  /\ missedLow = FALSE
  /\ lastDebounce = 0
  /\ lastState = HIGH
  /\ detected = FALSE
  /\ obsLevel = 2
  /\ obsSince = 0
  /\ lastCall = 0
  /\ trueSinceHigh = 0
  /\ inspSinceHigh = 0
  /\ polls = 0
  /\ gateAngle = SERVO_CLOSED_ANGLE
  /\ pos = 0
  /\ greenLed = LOW
  /\ redLed = LOW
  /\ buzzer = LOW
  /\ lcd = "blank"
  /\ height = 0
  /\ size = ""
  /\ hasWater = FALSE
  /\ accepted = FALSE
  /\ i = 0
  /\ avg = 0
  /\ steps = <<>>
  /\ duration = 0
  /\ rawSum = 0
  /\ writes = 0
  /\ buzzHighs = 0
  /\ sinceChange = 0

\* lines 82 and 88: the if of loop(), and the delay when it is not taken
LiveLoopDetect ==
  /\ pc = "idle"
  /\ bottleDetectedWrap
  /\ IF detected'
       THEN pc' = "measure" /\ UNCHANGED <<now, envVars>>
       ELSE pc' = "idle" /\ DelayWrap(LOOP_DELAY)
  /\ UNCHANGED <<sinceChange, inspSinceHigh, polls, outVars, inspVars>>

\* line 83: inspectBottle() from its call to its return
LiveInspect ==
  /\ pc = "measure"
  /\ \E d \in EchoDurations, sum \in LiveSums :
       LET acc == AcceptDecision(WaterResult(sum)) IN
       /\ accepted' = acc
       /\ greenLed' = GreenLevel(acc)
       /\ redLed' = RedLevel(acc)
       /\ DelayWrap(InspectTime(d, acc))
  /\ lcd' = "result"
  /\ pc' = "clearwait"
  /\ UNCHANGED <<detVars, inspSinceHigh, polls, gateAngle, buzzer, buzzHighs,
                 height, size, hasWater, i, avg, pos, steps, duration, rawSum, writes>>

\* a ClearWait that polls the raw level instead of the detector
LiveClearWait_RawLevel ==
  /\ pc = "clearwait"
  /\ IF ir = LOW
       THEN pc' = "clearwait" /\ DelayWrap(CLEARWAIT_DELAY)
       ELSE pc' = "cooldown" /\ UNCHANGED <<now, envVars>>
  /\ UNCHANGED <<detVars, inspSinceHigh, polls, outVars, inspVars>>

\* line 84: one evaluation of the while, and its body
LiveClearWait ==
  /\ pc = "clearwait"
  /\ bottleDetectedWrap
  /\ IF detected'
       THEN pc' = "clearwait" /\ DelayWrap(CLEARWAIT_DELAY)
       ELSE pc' = "cooldown" /\ UNCHANGED <<now, envVars>>
  /\ UNCHANGED <<sinceChange, inspSinceHigh, polls, outVars, inspVars>>

\* lines 85-88
LiveCooldown ==
  /\ pc = "cooldown"
  /\ DelayWrap(COOLDOWN_MS + LOOP_DELAY)
  /\ lcd' = "blank"
  /\ pc' = "idle"
  /\ UNCHANGED <<detVars, inspSinceHigh, polls, gateAngle, greenLed, redLed, buzzer, buzzHighs, inspVars>>

NextLive == LiveLoopDetect \/ LiveInspect \/ LiveClearWait \/ LiveCooldown

\* the processor always executes the next statement
SpecLive == InitLive /\ [][NextLive]_vars /\ WF_vars(NextLive)

\* =====================================================================
\* The detector polled every 10 ms on the wrapping counter, as the loops
\* of lines 82-88 and of line 84 poll it, with the time that has really
\* passed since lastDebounce was assigned kept beside the counter.
\* =====================================================================
\* a time s after n more ms; times of a period of the counter or more are
\* not told apart
Aged(s, n) == Min(LiveClock, s + n)

\* lines 101-103: the assignment of lastDebounce restarts the time
SinceAfterCall(cur) == IF cur # lastState THEN 0 ELSE sinceChange

\* loop() is entered for the first time, less than a period of the counter
\* after lastDebounce was initialised
InitWrap ==
  /\ pc = "idle"
  /\ now = (LCD_TEST_DELAY + 100 + 50 + 100 + READY_DELAY) % LiveClock
  /\ sinceChange = now
  /\ ir \in {LOW, HIGH}
  /\ irStable = 0
  /\ inspInLow = 0
  /\ missedLow = FALSE
  /\ lastDebounce = 0
  /\ lastState = HIGH
  /\ detected = FALSE
  /\ obsLevel = 2
  /\ obsSince = 0
  /\ lastCall = 0
  /\ trueSinceHigh = 0
  /\ inspSinceHigh = 0
  /\ polls = 0
  /\ gateAngle = SERVO_CLOSED_ANGLE
  /\ pos = 0
  /\ greenLed = LOW
  /\ redLed = LOW
  /\ buzzer = LOW
  /\ buzzHighs = 0
  /\ lcd = "blank"
  /\ height = 0
  /\ size = ""
  /\ hasWater = FALSE
  /\ accepted = FALSE
  /\ i = 0
  /\ avg = 0
  /\ rawSum = 0
  /\ duration = 0
  /\ writes = 0
  /\ steps = <<>>

\* one call of bottleDetected() and the delay(10) that follows it
WrapPoll ==
  /\ pc = "idle"
  /\ bottleDetectedWrap
  /\ DelayWrap(LOOP_DELAY)
  /\ sinceChange' = Aged(SinceAfterCall(ir), LOOP_DELAY)
  /\ UNCHANGED <<pc, inspSinceHigh, polls, outVars, inspVars>>

NextWrap == WrapPoll

SpecWrap == InitWrap /\ [][NextWrap]_vars

\* =====================================================================
\* The functions of the inspection on their own, each entered with inputs
\* from a grid that contains the boundaries of its cases
\* =====================================================================
\* the program is at position p, with everything outside the inspection as
\* setup() leaves it
EnteredAt(p) ==
  /\ pc = p
  /\ now = 0
  /\ ir = HIGH
  /\ irStable = 0
  /\ inspInLow = 0
  /\ missedLow = FALSE
  /\ lastDebounce = 0
  /\ lastState = HIGH
  /\ detected = FALSE
  /\ obsLevel = 2
  /\ obsSince = 0
  /\ lastCall = 0
  /\ trueSinceHigh = 0
  /\ sinceChange = 0
  /\ inspSinceHigh = 0
  /\ polls = 0
  /\ gateAngle = SERVO_CLOSED_ANGLE
  /\ greenLed = LOW
  /\ redLed = LOW
  /\ buzzer = LOW
  /\ buzzHighs = 0
  /\ lcd = "blank"
  /\ hasWater = FALSE
  /\ accepted = FALSE
  /\ pos = 0
  /\ writes = 0

\* heights from -1.0 cm to 50.0 cm every 0.5 cm, and the two thresholds with
\* their neighbours at 10^-5 cm
HeightGrid ==
  {k * 50000 : k \in -2..100}
    \cup {SMALL_MAX - 1, SMALL_MAX, SMALL_MAX + 1, MEDIUM_MAX - 1, MEDIUM_MAX, MEDIUM_MAX + 1}

\* line 116 is reached with some height
InitClassify ==
  /\ EnteredAt("classify")
  /\ height \in HeightGrid
  /\ size = ""
  /\ i = 0
  /\ avg = 0
  /\ rawSum = 0
  /\ duration = 0
  /\ steps = <<"measure">>

NextClassify == Classify

SpecClassify == InitClassify /\ [][NextClassify]_vars

\* echo times from 0 to 2500 us every 25 us (0 to 42.9 cm), the two times
\* around a distance of 40.0 cm, a distance of 4 m, and the longest time
\* pulseIn returns before its timeout
DurationGrid == {k * 25 : k \in 0..100} \cup {2332, 2333, 23323, 999999}

\* line 115 is reached
InitMeasure ==
  /\ EnteredAt("measure")
  /\ height = 0
  /\ size = ""
  /\ i = 0
  /\ avg = 0
  /\ rawSum = 0
  /\ duration = 0
  /\ steps = <<>>

MeasureGrid == MeasureFrom(DurationGrid)

NextMeasure == MeasureGrid \/ Classify

SpecMeasure == InitMeasure /\ [][NextMeasure]_vars

\* readings of the 10-bit converter: both ends of its range and the values
\* around the threshold
SampleGrid == {0, 499, 500, 501, 504, 1023}

\* line 117 is reached: checkWaterPresence() is entered
InitWater ==
  /\ EnteredAt("water")
  /\ height = SENSOR_HEIGHT
  /\ size = "Large"
  /\ i = 0
  /\ avg = 0
  /\ rawSum = 0
  /\ duration = 0
  /\ steps = <<"measure", "classify">>

WaterReadGrid == WaterReadFrom(SampleGrid)

NextWater == WaterReadGrid \/ WaterDone

SpecWater == InitWater /\ [][NextWater]_vars

\* line 128 is reached with either decision, the LEDs written
InitGate ==
  /\ pc = "branch"
  /\ accepted \in BOOLEAN
  /\ now = 0
  /\ ir = LOW
  /\ irStable = 0
  /\ inspInLow = 1
  /\ missedLow = FALSE
  /\ lastDebounce = 0
  /\ lastState = LOW
  /\ detected = TRUE
  /\ obsLevel = LOW
  /\ obsSince = 0
  /\ lastCall = 0
  /\ trueSinceHigh = 1
  /\ sinceChange = 0
  /\ inspSinceHigh = 1
  /\ polls = 0
  /\ gateAngle = SERVO_CLOSED_ANGLE
  /\ greenLed = GreenLevel(accepted)
  /\ redLed = RedLevel(accepted)
  /\ buzzer = LOW
  /\ buzzHighs = 0
  /\ lcd = "result"
  /\ height = SENSOR_HEIGHT
  /\ size = "Large"
  /\ hasWater = ~accepted
  /\ i = 0
  /\ avg = 0
  /\ rawSum = 0
  /\ duration = 0
  /\ pos = 0
  /\ writes = 0
  /\ steps = CommonSteps

\* lines 128-135
NextGate ==
  \/ Branch
  \/ OpenStep \/ OpenDone
  \/ BeepHigh \/ BeepLow \/ ToneGap
  \/ Hold
  \/ CloseStep \/ CloseDone

SpecGate == InitGate /\ [][NextGate]_vars

\* =====================================================================
\* Claims
\* =====================================================================
\* a call of bottleDetected has just returned true
JustReturnedTrue == detected /\ pc \in {"measure", "clearwait_delay"}

\* C1 (as stated): a call returns true only when the pin has physically been
\* LOW without interruption for more than 50 ms, so a signal that changes
\* level within every 50 ms never yields true.
C1_PhysicallyStableLow ==
  JustReturnedTrue => (ir = LOW /\ irStable > DEBOUNCE_MS)

\* C1 (amended): a call returns true only when it reads LOW and every call
\* since more than 50 ms ago has read LOW, i.e. the detector has observed
\* no change of level for more than 50 ms.
C1_ObservedStableLow ==
  detected => (obsLevel = LOW /\ lastCall - obsSince > DEBOUNCE_MS)

C1_Witness == detected /\ pc = "measure" /\ obsLevel = LOW

CycleEdges ==
  { <<"Setup", "Idle">>, <<"Idle", "Inspecting">>, <<"Inspecting", "ClearWait">>,
    <<"ClearWait", "CooldownDisplay">>, <<"CooldownDisplay", "Idle">> }

\* C4: the controller moves Idle -> Inspecting -> ClearWait ->
\* CooldownDisplay -> Idle and in no other way; an inspection starts only
\* at the call of the detector in Idle, when it returns true; ClearWait is
\* left only when the detector returns false; Idle is re-entered only with
\* the display cleared and at least 2000 ms after the last read of the
\* sensor; and no step of Inspecting or CooldownDisplay calls the detector.
C4_Cycle ==
  [][ /\ Phase(pc') # Phase(pc) => <<Phase(pc), Phase(pc')>> \in CycleEdges
      /\ (Phase(pc') = "Inspecting" /\ Phase(pc) # "Inspecting")
           => (pc = "idle" /\ detected' /\ lastCall' = now)
      /\ (Phase(pc) = "ClearWait" /\ Phase(pc') # "ClearWait")
           => (~detected' /\ lastCall' = now)
      /\ (Phase(pc) = "CooldownDisplay" /\ Phase(pc') = "Idle")
           => (lcd' = "blank" /\ now' - lastCall >= COOLDOWN_MS)
      /\ Phase(pc) \in {"Inspecting", "CooldownDisplay"} => UNCHANGED detVars
    ]_vars

\* a whole cycle has been completed
C4_Witness == pc = "idle" /\ steps # <<>> /\ lcd = "blank" /\ now - lastCall >= COOLDOWN_MS

\* ---------------------------------------------------------------------
ExpectedSteps(acc) ==
  IF acc THEN CommonSteps \o <<"open", "accept_tone", "hold", "close">>
  ELSE CommonSteps \o <<"reject_tone">>

IsPrefix(a, b) == Len(a) <= Len(b) /\ SubSeq(b, 1, Len(a)) = a

\* C5: an inspection performs measure, classify, sample, decide, display,
\* LED writes and then, if accepted, open sweep, accept tone, hold, close
\* sweep, or, if rejected, the reject tone alone: in this order, each once.
C5_StepOrder ==
  /\ Phase(pc) = "Inspecting" =>
       IF Len(steps) < 4 THEN IsPrefix(steps, CommonSteps)
       ELSE IsPrefix(steps, ExpectedSteps(accepted))
  /\ (pc = "log" \/ Phase(pc) \in {"ClearWait", "CooldownDisplay"}) => steps = ExpectedSteps(accepted)
  /\ pc = "hold" => (gateAngle = SERVO_OPEN_ANGLE /\ buzzer = LOW)
  /\ pc \in {"reject_beep", "reject_beep_on"} => gateAngle = SERVO_CLOSED_ANGLE

C5_Witness == pc = "log" /\ accepted /\ Len(steps) = 10 /\ gateAngle = SERVO_CLOSED_ANGLE

\* ---------------------------------------------------------------------
\* the steps of an inspection at which the liquid reading is known
AfterSampling == {"display", "led_green", "led_red", "branch", "open", "accept_beep1",
                  "accept_beep1_on", "accept_gap", "accept_beep2", "accept_beep2_on",
                  "hold", "close", "reject_beep", "reject_beep_on", "log"}

GateWasOpened == \E k \in 1..Len(steps) : steps[k] = "open"

\* C6: whatever the height, the gate leaves 0 degrees during an inspection
\* exactly if the liquid sampler returned false: with liquid the angle is 0
\* throughout, without liquid the inspection ends having swept the gate.
C6_AcceptIffNoWater ==
  /\ (pc \in AfterSampling /\ hasWater) => (gateAngle = SERVO_CLOSED_ANGLE /\ pc # "open" /\ pc # "close")
  /\ pc = "log" => (GateWasOpened <=> ~hasWater)
  /\ pc \in AfterSampling => (accepted <=> ~hasWater)

C6_Witness == pc = "log" /\ hasWater /\ size = "Large" /\ ~GateWasOpened

\* ---------------------------------------------------------------------
\* C7: the commanded angle is always within 0..180; it is 0 in Idle,
\* ClearWait and CooldownDisplay; it never decreases during an opening
\* sweep and never increases during a closing sweep; and an inspection
\* that opened the gate returns with the angle back at 0.
C7_GateAngle ==
  /\ [](gateAngle \in SERVO_CLOSED_ANGLE..SERVO_OPEN_ANGLE)
  /\ [](Phase(pc) \in {"Idle", "ClearWait", "CooldownDisplay"} => gateAngle = SERVO_CLOSED_ANGLE)
  /\ []((pc = "log" /\ GateWasOpened) => gateAngle = SERVO_CLOSED_ANGLE)
  /\ [][ /\ pc = "open" => gateAngle' >= gateAngle
         /\ pc = "close" => gateAngle' <= gateAngle ]_vars

C7_Witness == pc = "clearwait" /\ GateWasOpened /\ gateAngle = SERVO_CLOSED_ANGLE

\* ---------------------------------------------------------------------
AfterLedWrites == {"branch", "open", "accept_beep1", "accept_beep1_on", "accept_gap",
                   "accept_beep2", "accept_beep2_on", "hold", "close", "reject_beep",
                   "reject_beep_on", "log"}

\* C8: after the LED writes of an accepted inspection green is high and red
\* low, after those of a rejected one red is high and green low, and in Idle
\* both LEDs are low.
C8_Leds ==
  /\ (pc \in AfterLedWrites /\ accepted) => (greenLed = HIGH /\ redLed = LOW)
  /\ (pc \in AfterLedWrites /\ ~accepted) => (redLed = HIGH /\ greenLed = LOW)
  /\ Phase(pc) = "Idle" => (greenLed = LOW /\ redLed = LOW)

\* ---------------------------------------------------------------------
\* C10: the controller acts on the presence signal only when the level has
\* been read stable for more than 50 ms: LOW to start an inspection, HIGH
\* to leave ClearWait.
C10_ActsOnSettledLevelOnly ==
  /\ pc = "measure" => (obsLevel = LOW /\ lastCall - obsSince > DEBOUNCE_MS)
  /\ pc = "cooldown" => (obsLevel = HIGH /\ lastCall - obsSince > DEBOUNCE_MS)

\* ---------------------------------------------------------------------
\* C9: there is no state in which the controller halts: from Inspecting,
\* ClearWait and CooldownDisplay it always gets back to Idle, whatever the
\* presence input does.
C9_ReturnsToIdle == (pc # "idle") ~> (pc = "idle")

\* back in Idle after an inspection during which, and after which, the
\* bottle stayed in the beam
C9_Witness == pc = "idle" /\ lcd = "blank" /\ redLed = HIGH /\ lastState = LOW /\ ir = LOW

\* ---------------------------------------------------------------------
\* C11: for every height the classifier returns exactly one of Small,
\* Medium and Large: Small exactly for h <= 15.0, Medium exactly for
\* 15.0 < h <= 25.0, Large exactly for h > 25.0, so that 15.0 and 25.0
\* themselves fall in the lower band.
C11_Bands ==
  pc = "water" =>
    /\ size \in {"Small", "Medium", "Large"}
    /\ size = "Small" <=> height <= 1500000
    /\ size = "Medium" <=> (1500000 < height /\ height <= 2500000)
    /\ size = "Large" <=> height > 2500000

\* the classifier was applied to exactly 15.0 cm
C11_Witness == pc = "water" /\ height = 1500000 /\ size = "Small"

\* ---------------------------------------------------------------------
\* the distance of the echo, in units of 10^-5 cm
Distance == duration * 1715

\* C12: for every echo the height measured is 40.0 cm minus the distance,
\* or 0 when the distance exceeds 40.0 cm: never negative and never above
\* 40.0 cm.  Without an echo (duration 0) it is 40.0 cm, which the
\* inspection classifies as Large and carries on with like any other
\* measurement.
C12_Height ==
  pc \in {"classify", "water"} =>
    /\ height = (IF Distance > 4000000 THEN 0 ELSE 4000000 - Distance)
    /\ height >= 0
    /\ height <= 4000000
    /\ duration = 0 => height = 4000000
    /\ (duration = 0 /\ pc = "water") => (size = "Large" /\ steps = <<"measure", "classify">>)

\* no echo: the mounting height was measured and classified
C12_Witness == pc = "water" /\ duration = 0 /\ height = 4000000 /\ size = "Large"

\* ---------------------------------------------------------------------
\* C13: checkWaterPresence takes exactly 5 readings, each adding its value
\* of 0..1023 to a running sum that always fits a 16-bit signed int, and
\* returns true exactly if the sum divided by 5, fraction dropped, is
\* greater than 500: false for every sum up to 2504, true from 2505 on.
C13_Water ==
  /\ [](pc = "water" => (i \in 0..5 /\ avg = rawSum /\ rawSum <= 32767))
  /\ [](pc = "display" => (hasWater <=> (rawSum \div 5) > 500))
  /\ [](pc = "display" => (hasWater <=> rawSum >= 2505))
  /\ [][ /\ (pc = "water" /\ pc' = "water") => (i' = i + 1 /\ rawSum' - rawSum \in 0..1023)
         /\ (pc = "water" /\ pc' # "water") => (i = 5 /\ rawSum' = rawSum)
       ]_vars

\* five readings whose average is 500.8 were taken and gave false
C13_Witness == pc = "display" /\ rawSum = 2504 /\ ~hasWater /\ accepted

\* ---------------------------------------------------------------------
\* a sweep has left its loop
SweepEnded == (pc = "open" /\ pos > 180) \/ (pc = "close" /\ pos < 0)

\* C14 (as stated): a sweep consists of 90 steps, each one commanded angle
\* followed by one pause of 20 ms.
C14_NinetySteps == SweepEnded => writes = 90

\* C14 (amended): a sweep consists of 91 steps, each one commanded angle
\* followed by one pause of 20 ms, 1820 ms in all: open commands 0, 2, ...,
\* 180 and close commands 180, 178, ..., 0, so that consecutive angles of
\* a sweep differ by exactly 2 (90 changes of 2 degrees); each sweep ends.
C14_Sweep ==
  /\ [](pc \in {"open", "close"} => writes <= 91)
  /\ []((pc = "open" /\ pos > 180) => (writes = 91 /\ gateAngle = 180 /\ now = 91 * 20))
  /\ []((pc = "close" /\ pos < 0) => (writes = 91 /\ gateAngle = 0))
  /\ [][ /\ (pc = "open" /\ pc' = "open") =>
              /\ now' = now + 20
              /\ writes' = writes + 1
              /\ gateAngle' = (IF writes = 0 THEN 0 ELSE gateAngle + 2)
         /\ (pc = "close" /\ pc' = "close") =>
              /\ now' = now + 20
              /\ writes' = writes + 1
              /\ gateAngle' = (IF writes = 0 THEN 180 ELSE gateAngle - 2)
       ]_vars

\* the closing sweep has commanded its last angle
C14_Witness == pc = "close" /\ pos < 0 /\ writes = 91 /\ gateAngle = 0

\* ---------------------------------------------------------------------
\* C15: the green and the red LED are never high together, not even
\* between the two LED writes of an inspection.
C15_NeverBothHigh == ~(greenLed = HIGH /\ redLed = HIGH)

\* ---------------------------------------------------------------------
\* the positions inside beep(), between its two writes
BeepOn == {b.mid : b \in Beeps}

\* C16: the buzzer is high only inside a beep: it is low in Idle, ClearWait
\* and CooldownDisplay, during the sweeps and the hold, and while the
\* sensors are sampled; and an inspection has driven it high exactly twice
\* when it was accepted and exactly once when it was rejected.
C16_Buzzer ==
  /\ buzzer = HIGH => pc \in BeepOn
  /\ Phase(pc) \in {"Idle", "ClearWait", "CooldownDisplay"} => buzzer = LOW
  /\ pc \in {"measure", "classify", "water", "open", "hold", "close"} => buzzer = LOW
  /\ (pc = "log" \/ Phase(pc) \in {"ClearWait", "CooldownDisplay"}) =>
       buzzHighs = (IF accepted THEN 2 ELSE 1)

\* an accepted inspection is over, the gate closed again
C16_Witness ==
  pc = "log" /\ accepted /\ buzzHighs = 2 /\ buzzer = LOW /\ GateWasOpened /\ height = 4000000

\* ---------------------------------------------------------------------
\* the time of the call of the last poll
CallTime == (now - LOOP_DELAY) % LiveClock

\* C17 (as stated): the wrapping of the counter never makes the detector
\* miss: a call that reads LOW more than 50 ms after the last observed
\* change of level returns true, however often the counter has wrapped
\* since the change.
C17_NoMissedDetection ==
  (lastState = LOW /\ sinceChange - LOOP_DELAY > 50) => detected

\* C17 (amended): as long as less than one period of the counter (2^32 ms
\* in the program) has passed since lastDebounce was assigned,
\* millis() - lastDebounce is the time that has really passed, whether the
\* counter wrapped in between or not, and a call returns true exactly if
\* it reads LOW more than 50 ms after the last observed change.  A call
\* never returns true earlier than that, whatever time has passed.
C17_WrapSafe ==
  /\ [](sinceChange < LiveClock => ElapsedWrap(now, lastDebounce) = sinceChange)
  /\ [][ /\ SinceAfterCall(ir) < LiveClock =>
              (detected' <=> (ir = LOW /\ SinceAfterCall(ir) > 50))
         /\ detected' => (ir = LOW /\ SinceAfterCall(ir) > 50) ]_vars

\* a detection by a call made after the counter wrapped, the level having
\* last changed before it wrapped
C17_Witness ==
  /\ detected
  /\ CallTime < lastDebounce
  /\ sinceChange < LiveClock
  /\ sinceChange - LOOP_DELAY > 50

\* ---------------------------------------------------------------------
\* the positions at which bottleDetected() is called
CallSites == {"idle", "clearwait"}

\* C18: after every call of bottleDetected, the calls that return true
\* without assigning lastState included, lastState is the level that call
\* read; so a call assigns lastDebounce exactly if the level it reads
\* differs from the level the call before it read.
C18_LastStateIsLevelRead ==
  /\ [](obsLevel # 2 => lastState = obsLevel)
  /\ [][ (pc \in CallSites /\ obsLevel # 2) =>
            lastDebounce' = (IF ir # obsLevel THEN now ELSE lastDebounce) ]_vars

\* a second call in a row has returned true through the early return
C18_Witness ==
  pc = "clearwait_delay" /\ detected /\ trueSinceHigh = 2 /\ lastState = LOW /\ obsLevel = LOW
====
